---- MODULE Spec2Model ----
(***************************************************************************)
(* Session / credential subsystem and password vault of the backend:       *)
(* signup, login, logout, refresh (auth.controller), the authenticate      *)
(* middleware, the JWT helpers, and the vault controller with its AES      *)
(* helpers.  A handler is a sequence of steps, each holding one awaited     *)
(* database statement and the synchronous code around it, so that          *)
(* concurrent requests interleave where the event loop lets them.          *)
(***************************************************************************)
EXTENDS Integers, Sequences, FiniteSets, TLC

VARIABLES
    now,        \* wall clock (Date.now()), in ticks of 1/TicksPerSec second
    users,      \* table User
    categories, \* tables TransactionCategory and PasswordCategory
    ledger,     \* table RefreshToken
    nextRow,    \* next RefreshToken.id
    reqs,       \* the request each connection has in flight on the server
    nreq,       \* signup and login requests admitted so far
    lastResp,   \* the response the last step sent, Quiet if it sent none
    accessOut,  \* access tokens clients have received with a session
    refreshOut, \* refresh tokens clients have received with a session
    superseded, \* refresh tokens of sessions followed by a completed later login
    revoked,    \* per user: refresh tokens received before the last logout
    vault,      \* table PasswordVault
    secretOf,   \* per vault entry id: the secret last stored for it by a request
    localStorage, \* the browser's localStorage: access_token and refresh_token
    contextUser,  \* the user state of AuthProvider
    client,       \* the browser's calls in flight, its location, the call last settled
    vaultUi,      \* VaultDashboard: the entry shown or masked, its setTimeout timers
    tasks         \* table Task

vaultVars == <<vault, secretOf>>

clientVars == <<localStorage, contextUser, client, vaultUi>>

vars == <<now, users, categories, ledger, nextRow, reqs, nreq,
          lastResp, accessOut, refreshOut, superseded, revoked, vault, secretOf,
          localStorage, contextUser, client, vaultUi, tasks>>

-----------------------------------------------------------------------------
(* Bounds of the exploration *)

MaxReqs == 2
MaxEntries == 1
TicksPerSec == 2

Slots == {"c1", "c2"}
Rank(s) == IF s = "c1" THEN 1 ELSE 2
Emails == {"a@x.com", "b@x.com"}

-----------------------------------------------------------------------------
(* utils/jwt.ts *)

ACCESS_SECRET == "default-access-secret-key-32-chars"
REFRESH_SECRET == "default-refresh-secret-key-32-chars"
ACCESS_EXPIRES == 15 * 60
REFRESH_EXPIRES == 7 * 24 * 60 * 60
RefreshDays == 7

\* jsonwebtoken stamps iat = floor(Date.now() / 1000)
Seconds(t) == t \div TicksPerSec

\* jwt.sign(payload, secret, {expiresIn}): HS256 is deterministic, so the
\* token string is a function of the secret, the payload, iat and exp.
jwtSign(payload, secret, expiresIn, t) ==
    [sig |-> secret, userId |-> payload.userId, email |-> payload.email,
     iat |-> Seconds(t), exp |-> Seconds(t) + expiresIn]

\* jwt.verify as it would be with ignoreExpiration.
jwtVerifyIgnoreExpiration(token, secret, t) ==
    token.sig = secret

\* jwt.verify(token, secret): throws on a bad signature and when
\* floor(Date.now() / 1000) >= exp.
jwtVerify(token, secret, t) ==
    /\ token.sig = secret
    /\ Seconds(t) < token.exp

generateAccessToken(payload, t) == jwtSign(payload, ACCESS_SECRET, ACCESS_EXPIRES, t)

\* generateRefreshToken as it would be were both classes signed with one secret
generateRefreshTokenSameSecret(payload, t) ==
    jwtSign(payload, ACCESS_SECRET, REFRESH_EXPIRES, t)

generateRefreshToken(payload, t) == jwtSign(payload, REFRESH_SECRET, REFRESH_EXPIRES, t)

verifyAccessToken(token, t) == jwtVerify(token, ACCESS_SECRET, t)

verifyRefreshToken(token, t) == jwtVerify(token, REFRESH_SECRET, t)

\* expiry.setDate(expiry.getDate() + days) moves the local calendar date: the
\* instant is `days` days later, one hour less or more when the server's time
\* zone changes to or from daylight saving time in between.
DstShifts == {0 - 60 * 60, 0, 60 * 60}

getRefreshTokenExpiry(t, shift) ==
    t + (RefreshDays * 24 * 60 * 60 + shift) * TicksPerSec

Payload(tok) == [userId |-> tok.userId, email |-> tok.email]

-----------------------------------------------------------------------------
(* utils/encryption.ts *)

SECRET_KEY == "default-32-char-secret-key-here!"

\* AES works on blocks of 16 bytes
BlockSize == 16

\* CryptoJS.enc.Utf8.parse: encodeURIComponent throws URIError on a lone
\* surrogate; otherwise one to three bytes per code unit.
IsSurrogate(c) == c >= 55296 /\ c <= 57343

Utf8Bytes(c) ==
    IF c < 128 THEN <<c>>
    ELSE IF c < 2048 THEN <<192 + (c \div 64), 128 + (c % 64)>>
    ELSE <<224 + (c \div 4096), 128 + ((c \div 64) % 64), 128 + (c % 64)>>

RECURSIVE Utf8Parse(_)
Utf8Parse(str) ==
    IF str = <<>> THEN <<>> ELSE Utf8Bytes(Head(str)) \o Utf8Parse(Tail(str))

\* CryptoJS.enc.Utf8.stringify: throws 'Malformed UTF-8 data' on bytes that
\* are no UTF-8.  Malformed is the marker of that exception.
Malformed == <<0 - 1>>

RECURSIVE Utf8Stringify(_)
Utf8Stringify(bytes) ==
    IF bytes = <<>> THEN <<>>
    ELSE LET b == Head(bytes)
             n == IF b < 128 THEN 1
                  ELSE IF b >= 192 /\ b < 224 THEN 2
                  ELSE IF b >= 224 /\ b < 240 THEN 3
                  ELSE 0
         IN IF n = 0 \/ Len(bytes) < n
               \/ \E i \in 2..n : bytes[i] < 128 \/ bytes[i] >= 192
            THEN Malformed
            ELSE LET c == IF n = 1 THEN b
                          ELSE IF n = 2 THEN (b - 192) * 64 + (bytes[2] - 128)
                          ELSE (b - 224) * 4096 + (bytes[2] - 128) * 64 + (bytes[3] - 128)
                     rest == Utf8Stringify(SubSeq(bytes, n + 1, Len(bytes)))
                 IN IF rest = Malformed THEN Malformed ELSE <<c>> \o rest

\* PKCS7: pad to a whole number of blocks with n bytes of value n, 1 <= n <= 16
Pkcs7Pad(bytes) ==
    LET n == BlockSize - (Len(bytes) % BlockSize)
    IN bytes \o [i \in 1..n |-> n]

\* CryptoJS unpad: drop as many bytes as the last byte says, without checking them
Pkcs7Unpad(bytes) ==
    IF bytes = <<>> THEN <<>>
    ELSE LET n == bytes[Len(bytes)]
         IN IF n >= Len(bytes) THEN <<>> ELSE SubSeq(bytes, 1, Len(bytes) - n)

\* The key a passphrase and a salt derive (EvpKDF), as one byte of key stream.
DeriveKey(passphrase, salt) ==
    ((IF passphrase = SECRET_KEY THEN 41 ELSE 113) + 5 * salt) % 256

\* The cipher proper stands for AES-CBC: a keyed permutation of the padded
\* bytes that only the same key undoes.
Encipher(bytes, key) == [i \in 1..Len(bytes) |-> (bytes[i] + key + i) % 256]
Decipher(bytes, key) == [i \in 1..Len(bytes) |-> (bytes[i] + 512 - key - i) % 256]

\* CryptoJS.AES.encrypt(password, SECRET_KEY).toString(): the salt drawn for
\* this call, then the ciphertext (OpenSSL format).  Free of the URIError case,
\* which the callers test with CanEncrypt.
CanEncrypt(password) == \A i \in 1..Len(password) : ~IsSurrogate(password[i])

encryptPassword(password, salt) ==
    <<salt>> \o Encipher(Pkcs7Pad(Utf8Parse(password)), DeriveKey(SECRET_KEY, salt))

\* CryptoJS.AES.decrypt(encryptedPassword, SECRET_KEY).toString(CryptoJS.enc.Utf8)
decryptPassword(encryptedPassword) ==
    LET salt == Head(encryptedPassword)
        body == Tail(encryptedPassword)
    IN Utf8Stringify(Pkcs7Unpad(Decipher(body, DeriveKey(SECRET_KEY, salt))))

-----------------------------------------------------------------------------
(* Values *)

\* User.id is a uuid; email is unique, so the id is named after the email.
IdOf(email) == <<"uid", email>>

\* Account passwords, as sequences of code points ("Passw0rd!", "Hunter22#").
PwA == <<80, 97, 115, 115, 119, 48, 114, 100, 33>>
PwB == <<72, 117, 110, 116, 101, 114, 50, 50, 35>>
Passwords == {PwA, PwB}

\* The password each account is registered with.
SignupInputs == {<<"a@x.com", PwA>>, <<"b@x.com", PwB>>}

\* bcrypt.hash(password, salt) with cost factor 12
BcryptCost == 12
\* bcryptjs keys Blowfish with the UTF-8 bytes of the password, of which it
\* uses the first 72
BcryptMaxBytes == 72
bcryptKey(password) ==
    LET bytes == Utf8Parse(password)
    IN IF Len(bytes) > BcryptMaxBytes THEN SubSeq(bytes, 1, BcryptMaxBytes) ELSE bytes

bcryptHash(password) == [alg |-> "2a", cost |-> BcryptCost, digest |-> bcryptKey(password)]

\* bcrypt.compare(password, hash)
bcryptCompare(password, hash) == bcryptHash(password) = hash

\* prisma/seed.ts
defaultTransactionCategories ==
    {"Business", "Personal", "Personal Business", "Food", "Transport",
     "Entertainment", "Shopping", "Bills", "Health", "Education"}

defaultPasswordCategories == {"Social", "Banking", "Work", "Shopping", "Entertainment"}

NoTok == [sig |-> "none", userId |-> <<>>, email |-> "", iat |-> 0, exp |-> 0]

\* A token signed with a key that is neither of the server's secrets.
Forged(email) ==
    [sig |-> "attacker-key", userId |-> IdOf(email), email |-> email,
     iat |-> 0, exp |-> REFRESH_EXPIRES * 4]

\* An Authorization header, as the fields between its single spaces.
Word(w) == [s |-> w, tok |-> NoTok]
Jwt(tok) == [s |-> "jwt", tok |-> tok]
Bearer(tok) == <<Word("Bearer"), Jwt(tok)>>

NoHeader == <<>>

HeadersOf(tok) ==
    { Bearer(tok),
      <<Word("Bearer"), Jwt(tok), Word("x")>>,
      <<Word("Bearer"), Word(""), Jwt(tok)>>,
      <<Word("bearer"), Jwt(tok)>>,
      <<Word("Basic"), Jwt(tok)>> }

\* What a client can put in a request: tokens it received, or forged ones.
KnownTokens == accessOut \cup refreshOut \cup {Forged(e) : e \in Emails}

Headers ==
    {NoHeader, <<Word("Bearer")>>, <<Word("Bearer"), Word("")>>}
        \cup UNION {HeadersOf(tok) : tok \in KnownTokens}

Idle == [op |-> "idle", pc |-> "idle"]

Resp(op, status, message, data) ==
    [op |-> op, status |-> status, message |-> message, data |-> data]

NoData == [k |-> "none"]

\* No response was sent
Quiet == Resp("none", 0, "", NoData)

\* middleware/errorHandler.ts: an ApiError keeps its status and message,
\* anything else (a Prisma error) becomes 500.
errorHandler(op, err) ==
    IF err.api
    THEN Resp(op, err.statusCode, err.message, NoData)
    ELSE Resp(op, 500, "Internal Server Error", NoData)

ApiError(statusCode, message) == [api |-> TRUE, statusCode |-> statusCode, message |-> message]
PrismaError(code) == [api |-> FALSE, statusCode |-> 0, message |-> code]
\* any other exception a handler lets escape
Thrown(message) == [api |-> FALSE, statusCode |-> 0, message |-> message]

LiveUser(id) == {u \in users : u.id = id /\ ~u.isDeleted}

UserRows(userId) == {r \in ledger : r.userId = userId}

-----------------------------------------------------------------------------
(* middleware/auth.ts *)

\* authenticate as it would be without the lookup of the user row.
authenticateNoUserLookup(authHeader, t) ==
    IF ~(Len(authHeader) >= 2 /\ authHeader[1].s = "Bearer")
    THEN [ok |-> FALSE, err |-> ApiError(401, "Authentication required")]
    ELSE LET token == authHeader[2] IN
         IF token.s = ""
         THEN [ok |-> FALSE, err |-> ApiError(401, "Authentication required")]
         ELSE IF ~(token.s = "jwt" /\ verifyAccessToken(token.tok, t))
         THEN [ok |-> FALSE, err |-> ApiError(401, "Invalid or expired token")]
         ELSE [ok |-> TRUE, user |-> Payload(token.tok)]

\* authenticate as it would be if it asked the ledger for a session of the user
authenticateWithLedger(authHeader, t) ==
    IF ~(Len(authHeader) >= 2 /\ authHeader[1].s = "Bearer")
    THEN [ok |-> FALSE, err |-> ApiError(401, "Authentication required")]
    ELSE LET token == authHeader[2] IN
         IF token.s = ""
         THEN [ok |-> FALSE, err |-> ApiError(401, "Authentication required")]
         ELSE IF ~(token.s = "jwt" /\ verifyAccessToken(token.tok, t))
         THEN [ok |-> FALSE, err |-> ApiError(401, "Invalid or expired token")]
         ELSE IF LiveUser(token.tok.userId) = {} \/ UserRows(token.tok.userId) = {}
         THEN [ok |-> FALSE, err |-> ApiError(401, "Invalid or expired token")]
         ELSE [ok |-> TRUE, user |-> Payload(token.tok)]

\* authenticate: the error passed to next(), or the principal put on req.user
authenticate(authHeader, t) ==
    IF ~(Len(authHeader) >= 2 /\ authHeader[1].s = "Bearer")
    THEN [ok |-> FALSE, err |-> ApiError(401, "Authentication required")]
    ELSE LET token == authHeader[2] IN
         IF token.s = ""
         THEN [ok |-> FALSE, err |-> ApiError(401, "Authentication required")]
         ELSE IF ~(token.s = "jwt" /\ verifyAccessToken(token.tok, t))
         THEN [ok |-> FALSE, err |-> ApiError(401, "Invalid or expired token")]
         ELSE IF LiveUser(token.tok.userId) = {}
         THEN [ok |-> FALSE, err |-> ApiError(401, "Invalid or expired token")]
         ELSE [ok |-> TRUE, user |-> Payload(token.tok)]

\* optionalAuth: the principal it puts on req.user, if any; next() is called
\* without an error in every case
NoPrincipal == [attached |-> FALSE, user |-> [userId |-> <<>>, email |-> ""]]

optionalAuth(authHeader, t) ==
    IF ~(Len(authHeader) >= 2 /\ authHeader[1].s = "Bearer")
    THEN NoPrincipal
    ELSE LET token == authHeader[2] IN
         IF token.s = ""
         THEN NoPrincipal
         ELSE IF ~(token.s = "jwt" /\ verifyAccessToken(token.tok, t))
         THEN NoPrincipal
         ELSE [attached |-> TRUE, user |-> Payload(token.tok)]

-----------------------------------------------------------------------------
(* Browser, lib/api.ts: tokenManager over localStorage; a key that is not set *)
(* holds NoTok.                                                               *)

clearTokens == [access_token |-> NoTok, refresh_token |-> NoTok]

setTokens(accessToken, refreshToken) ==
    [access_token |-> accessToken, refresh_token |-> refreshToken]

\* useState<User | null>(null)
NoUser == [id |-> <<>>, email |-> ""]

\* No call settled in the last step
NoCall == [call |-> "none", fulfilled |-> FALSE, retried |-> FALSE, outcome |-> "none"]

-----------------------------------------------------------------------------
Init ==
    /\ now = 0
    /\ users = {}
    /\ categories = {}
    /\ ledger = {}
    /\ nextRow = 1
    /\ reqs = [s \in Slots |-> Idle]
    /\ nreq = 0
    /\ lastResp = Quiet
    /\ accessOut = {}
    /\ refreshOut = {}
    /\ superseded = {}
    /\ revoked = [e \in Emails |-> {}]
    /\ vault = {}
    /\ secretOf = <<>>
    /\ localStorage = clearTokens
    /\ contextUser = NoUser
    /\ client = [logout |-> "idle", login |-> "idle", me |-> "idle", reveal |-> "idle",
                 location |-> "/", settled |-> NoCall, loggedOut |-> FALSE]
    /\ vaultUi = [visible |-> FALSE, revealing |-> FALSE, revealedAt |-> 0,
                  timers |-> {}, maskedBy |-> "none"]
    /\ tasks = {}

\* A new request is served on the first connection that is free.
CanStart(s) ==
    /\ reqs[s].op = "idle"
    /\ \A c \in Slots : reqs[c].op = "idle" => Rank(s) <= Rank(c)

Respond(s, resp) ==
    /\ reqs' = [reqs EXCEPT ![s] = Idle]
    /\ lastResp' = resp

Continue(s, req) ==
    /\ reqs' = [reqs EXCEPT ![s] = req]
    /\ lastResp' = Quiet

\* The clock moves on between any two steps, to one of the instants explored.
Advance(instants) ==
    /\ \E t \in instants : t > now /\ now' = t
    /\ lastResp' = Quiet
    /\ UNCHANGED vaultVars
    /\ UNCHANGED clientVars
    /\ UNCHANGED tasks
    /\ UNCHANGED <<users, categories, ledger, nextRow, reqs, nreq,
                   accessOut, refreshOut, superseded, revoked>>

-----------------------------------------------------------------------------
(* controllers/auth.controller.ts: signup *)

DefaultCategories(userId) ==
    {[userId |-> userId, type |-> "transaction", name |-> c, isDefault |-> TRUE,
      isDeleted |-> FALSE] : c \in defaultTransactionCategories}
    \cup
    {[userId |-> userId, type |-> "password", name |-> c, isDefault |-> TRUE,
      isDeleted |-> FALSE] : c \in defaultPasswordCategories}

\* findUnique({where: {email}}), then the bcrypt hash
SignupFind(s, email, password) ==
    /\ CanStart(s)
    /\ IF \E u \in users : u.email = email
       THEN /\ Respond(s, errorHandler("signup", ApiError(400, "Email already registered")))
            /\ UNCHANGED nreq
       ELSE /\ nreq < MaxReqs
            /\ nreq' = nreq + 1
            /\ Continue(s, [op |-> "signup", pc |-> "createUser", email |-> email,
                            password |-> bcryptHash(password)])
    /\ UNCHANGED vaultVars
    /\ UNCHANGED clientVars
    /\ UNCHANGED tasks
    /\ UNCHANGED <<now, users, categories, ledger, nextRow,
                   accessOut, refreshOut, superseded, revoked>>

\* user.create with the nested default categories, then both tokens are signed
SignupCreateUser(s, shifts) ==
    /\ reqs[s].op = "signup" /\ reqs[s].pc = "createUser"
    /\ LET r == reqs[s]
           payload == [userId |-> IdOf(r.email), email |-> r.email]
       IN IF \E u \in users : u.email = r.email
          THEN /\ Respond(s, errorHandler("signup", PrismaError("P2002")))
               /\ UNCHANGED <<users, categories>>
          ELSE /\ users' = users \cup {[id |-> IdOf(r.email), email |-> r.email,
                                       password |-> r.password, isDeleted |-> FALSE]}
               /\ categories' = categories \cup DefaultCategories(IdOf(r.email))
               /\ \E shift \in shifts :
                      Continue(s, [op |-> "signup", pc |-> "storeToken", email |-> r.email,
                                   accessToken |-> generateAccessToken(payload, now),
                                   refreshToken |-> generateRefreshToken(payload, now),
                                   expiresAt |-> getRefreshTokenExpiry(now, shift)])
    /\ UNCHANGED vaultVars
    /\ UNCHANGED clientVars
    /\ UNCHANGED tasks
    /\ UNCHANGED <<now, ledger, nextRow, nreq,
                   accessOut, refreshOut, superseded, revoked>>

\* refreshToken.create (token is a unique column), then the 201 response
SignupStoreToken(s) ==
    /\ reqs[s].op = "signup" /\ reqs[s].pc = "storeToken"
    /\ LET r == reqs[s] IN
       IF \E row \in ledger : row.token = r.refreshToken
       THEN /\ Respond(s, errorHandler("signup", PrismaError("P2002")))
            /\ UNCHANGED <<ledger, nextRow, accessOut, refreshOut>>
       ELSE /\ ledger' = ledger \cup {[id |-> nextRow, token |-> r.refreshToken,
                                      userId |-> IdOf(r.email), expiresAt |-> r.expiresAt]}
            /\ nextRow' = nextRow + 1
            /\ Respond(s, Resp("signup", 201, "User registered successfully",
                               [k |-> "session", accessToken |-> r.accessToken,
                                refreshToken |-> r.refreshToken]))
            /\ accessOut' = accessOut \cup {r.accessToken}
            /\ refreshOut' = refreshOut \cup {r.refreshToken}
    /\ UNCHANGED vaultVars
    /\ UNCHANGED clientVars
    /\ UNCHANGED tasks
    /\ UNCHANGED <<now, users, categories, nreq, superseded, revoked>>

-----------------------------------------------------------------------------
(* controllers/auth.controller.ts: login *)

\* login as it would be if it told an unknown email from a wrong password
LoginFindTelling(s, email, password) ==
    /\ CanStart(s)
    /\ LET found == {u \in users : u.email = email /\ ~u.isDeleted} IN
       IF found = {}
       THEN /\ Respond(s, errorHandler("login", ApiError(404, "User not found")))
            /\ UNCHANGED nreq
       ELSE LET user == CHOOSE u \in found : TRUE
                payload == [userId |-> user.id, email |-> user.email]
            IN IF ~bcryptCompare(password, user.password)
               THEN /\ Respond(s, errorHandler("login", ApiError(401, "Invalid password")))
                    /\ UNCHANGED nreq
               ELSE /\ nreq < MaxReqs
                    /\ nreq' = nreq + 1
                    /\ Continue(s, [op |-> "login", pc |-> "deleteMany",
                                    email |-> user.email,
                                    accessToken |-> generateAccessToken(payload, now),
                                    refreshToken |-> generateRefreshToken(payload, now),
                                    prior |-> {t \in refreshOut : t.userId = user.id}])
    /\ UNCHANGED vaultVars
    /\ UNCHANGED clientVars
    /\ UNCHANGED tasks
    /\ UNCHANGED <<now, users, categories, ledger, nextRow,
                   accessOut, refreshOut, superseded, revoked>>

\* findUnique({where: {email, isDeleted: false}}), bcrypt.compare, then both
\* tokens are signed.  prior: the refresh tokens this user had received when
\* the login request arrived (history, not program state).
LoginFind(s, email, password) ==
    /\ CanStart(s)
    /\ LET found == {u \in users : u.email = email /\ ~u.isDeleted} IN
       IF found = {}
       THEN /\ Respond(s, errorHandler("login", ApiError(401, "Invalid email or password")))
            /\ UNCHANGED nreq
       ELSE LET user == CHOOSE u \in found : TRUE
                payload == [userId |-> user.id, email |-> user.email]
            IN IF ~bcryptCompare(password, user.password)
               THEN /\ Respond(s, errorHandler("login",
                                               ApiError(401, "Invalid email or password")))
                    /\ UNCHANGED nreq
               ELSE /\ nreq < MaxReqs
                    /\ nreq' = nreq + 1
                    /\ Continue(s, [op |-> "login", pc |-> "deleteMany",
                                    email |-> user.email,
                                    accessToken |-> generateAccessToken(payload, now),
                                    refreshToken |-> generateRefreshToken(payload, now),
                                    prior |-> {t \in refreshOut : t.userId = user.id}])
    /\ UNCHANGED vaultVars
    /\ UNCHANGED clientVars
    /\ UNCHANGED tasks
    /\ UNCHANGED <<now, users, categories, ledger, nextRow,
                   accessOut, refreshOut, superseded, revoked>>

\* refreshToken.deleteMany({where: {userId}})
LoginDeleteMany(s, shifts) ==
    /\ reqs[s].op = "login" /\ reqs[s].pc = "deleteMany"
    /\ ledger' = ledger \ UserRows(IdOf(reqs[s].email))
    /\ \E shift \in shifts :
           Continue(s, [reqs[s] EXCEPT !.pc = "storeToken"] @@
                       [expiresAt |-> getRefreshTokenExpiry(now, shift)])
    /\ UNCHANGED vaultVars
    /\ UNCHANGED clientVars
    /\ UNCHANGED tasks
    /\ UNCHANGED <<now, users, categories, nextRow, nreq,
                   accessOut, refreshOut, superseded, revoked>>

\* refreshToken.create, then the 200 response
LoginStoreToken(s) ==
    /\ reqs[s].op = "login" /\ reqs[s].pc = "storeToken"
    /\ LET r == reqs[s] IN
       IF \E row \in ledger : row.token = r.refreshToken
       THEN /\ Respond(s, errorHandler("login", PrismaError("P2002")))
            /\ UNCHANGED <<ledger, nextRow, accessOut, refreshOut, superseded, revoked>>
       ELSE /\ ledger' = ledger \cup {[id |-> nextRow, token |-> r.refreshToken,
                                      userId |-> IdOf(r.email), expiresAt |-> r.expiresAt]}
            /\ nextRow' = nextRow + 1
            /\ Respond(s, Resp("login", 200, "Login successful",
                               [k |-> "session", accessToken |-> r.accessToken,
                                refreshToken |-> r.refreshToken]))
            /\ accessOut' = accessOut \cup {r.accessToken}
            /\ refreshOut' = refreshOut \cup {r.refreshToken}
            /\ superseded' = superseded \cup r.prior
            /\ revoked' = [revoked EXCEPT ![r.email] = {}]
    /\ UNCHANGED vaultVars
    /\ UNCHANGED clientVars
    /\ UNCHANGED tasks
    /\ UNCHANGED <<now, users, categories, nreq>>

-----------------------------------------------------------------------------
(* routes behind the authenticate middleware *)

\* router.post('/logout', authenticate, logout), router.get('/me', authenticate, getMe):
\* the middleware either ends the request with its error or hands it to the handler.
Authenticate(s, authHeader, op) ==
    /\ CanStart(s)
    /\ LET a == authenticate(authHeader, now) IN
       IF a.ok
       THEN Continue(s, [op |-> op, pc |-> "handler", user |-> a.user])
       ELSE Respond(s, [errorHandler(op, a.err)
                        EXCEPT !.data = [k |-> "rejected", header |-> authHeader]])
    /\ UNCHANGED vaultVars
    /\ UNCHANGED clientVars
    /\ UNCHANGED tasks
    /\ UNCHANGED <<now, users, categories, ledger, nextRow, nreq,
                   accessOut, refreshOut, superseded, revoked>>

\* logout: deleteMany({where: {userId}}) when req.user is set
Logout(s) ==
    /\ reqs[s].op = "logout" /\ reqs[s].pc = "handler"
    /\ LET userId == reqs[s].user.userId IN
       /\ ledger' = ledger \ UserRows(userId)
       /\ revoked' = [revoked EXCEPT ![reqs[s].user.email] =
                          {t \in refreshOut : t.userId = userId}]
    /\ Respond(s, Resp("logout", 200, "Logged out successfully", NoData))
    /\ UNCHANGED vaultVars
    /\ UNCHANGED clientVars
    /\ UNCHANGED tasks
    /\ UNCHANGED <<now, users, categories, nextRow, nreq,
                   accessOut, refreshOut, superseded>>

\* getMe: findUnique({where: {id: userId}})
GetMe(s) ==
    /\ reqs[s].op = "me" /\ reqs[s].pc = "handler"
    /\ IF \E u \in users : u.id = reqs[s].user.userId
       THEN Respond(s, Resp("me", 200, "", [k |-> "user", id |-> reqs[s].user.userId]))
       ELSE Respond(s, errorHandler("me", ApiError(404, "User not found")))
    /\ UNCHANGED vaultVars
    /\ UNCHANGED clientVars
    /\ UNCHANGED tasks
    /\ UNCHANGED <<now, users, categories, ledger, nextRow, nreq,
                   accessOut, refreshOut, superseded, revoked>>

-----------------------------------------------------------------------------
(* controllers/auth.controller.ts: refreshToken *)

\* The body of a refresh response, with what was true of the presented token
\* when the request arrived (history, for the properties below).
RefreshData(token, accessToken) ==
    [k |-> "refresh", presented |-> token, accessToken |-> accessToken,
     wasSuperseded |-> token \in superseded,
     wasRevoked |-> \E e \in Emails : token \in revoked[e],
     rowExpired |-> \E row \in ledger : row.token = token /\ row.expiresAt < now,
     rowRemains |-> \E row \in ledger : row.token = token]

\* Refresh as it would be if a used refresh token were consumed.
RefreshRotating(s, token) ==
    /\ CanStart(s)
    /\ LET stored == {row \in ledger : row.token = token} IN
       IF ~verifyRefreshToken(token, now) \/ stored = {}
       THEN /\ Respond(s, [errorHandler("refresh", ApiError(401, "Invalid refresh token"))
                           EXCEPT !.data = RefreshData(token, NoTok)])
            /\ UNCHANGED ledger
       ELSE /\ ledger' = ledger \ stored
            /\ Respond(s, Resp("refresh", 200, "",
                               RefreshData(token, generateAccessToken(Payload(token), now))))
    /\ UNCHANGED vaultVars
    /\ UNCHANGED clientVars
    /\ UNCHANGED tasks
    /\ UNCHANGED <<now, users, categories, nextRow, nreq,
                   accessOut, refreshOut, superseded, revoked>>

\* verifyRefreshToken, findUnique({where: {token}}), the expiry test, and the
\* new access token
Refresh(s, token) ==
    /\ CanStart(s)
    /\ LET stored == {row \in ledger : row.token = token} IN
       IF ~verifyRefreshToken(token, now)
       THEN Respond(s, [errorHandler("refresh", ApiError(401, "Invalid refresh token"))
                        EXCEPT !.data = RefreshData(token, NoTok)])
       ELSE IF stored = {}
       THEN Respond(s, [errorHandler("refresh", ApiError(401, "Refresh token expired"))
                        EXCEPT !.data = RefreshData(token, NoTok)])
       ELSE LET storedToken == CHOOSE row \in stored : TRUE IN
            IF storedToken.expiresAt < now
            THEN Continue(s, [op |-> "refresh", pc |-> "cleanup",
                              rowId |-> storedToken.id,
                              data |-> RefreshData(token, NoTok)])
            ELSE Respond(s, Resp("refresh", 200, "",
                                 RefreshData(token, generateAccessToken(Payload(token), now))))
    /\ UNCHANGED vaultVars
    /\ UNCHANGED clientVars
    /\ UNCHANGED tasks
    /\ UNCHANGED <<now, users, categories, ledger, nextRow, nreq,
                   accessOut, refreshOut, superseded, revoked>>

\* refreshToken.delete({where: {id}}) of the expired row, then the 401
RefreshCleanup(s) ==
    /\ reqs[s].op = "refresh" /\ reqs[s].pc = "cleanup"
    /\ IF \E row \in ledger : row.id = reqs[s].rowId
       THEN /\ ledger' = {row \in ledger : row.id # reqs[s].rowId}
            /\ Respond(s, [errorHandler("refresh", ApiError(401, "Refresh token expired"))
                           EXCEPT !.data = [reqs[s].data EXCEPT !.rowRemains = FALSE]])
       ELSE /\ UNCHANGED ledger
            /\ Respond(s, [errorHandler("refresh", PrismaError("P2025"))
                           EXCEPT !.data = [reqs[s].data EXCEPT !.rowRemains = FALSE]])
    /\ UNCHANGED vaultVars
    /\ UNCHANGED clientVars
    /\ UNCHANGED tasks
    /\ UNCHANGED <<now, users, categories, nextRow, nreq,
                   accessOut, refreshOut, superseded, revoked>>

-----------------------------------------------------------------------------
(* User.isDeleted: the column the lookups filter on.  No handler of the      *)
(* backend sets it; an account is soft-deleted directly in the store.        *)

SoftDeleteUser(email) ==
    /\ \E u \in users : u.email = email /\ ~u.isDeleted
    /\ users' = {[u EXCEPT !.isDeleted = (u.email = email) \/ u.isDeleted] : u \in users}
    /\ UNCHANGED vaultVars
    /\ lastResp' = Quiet
    /\ UNCHANGED clientVars
    /\ UNCHANGED tasks
    /\ UNCHANGED <<now, categories, ledger, nextRow, reqs, nreq,
                   accessOut, refreshOut, superseded, revoked>>

-----------------------------------------------------------------------------
(* controllers/vault.controller.ts, behind router.use(authenticate) and the  *)
(* validators of routes/vault.routes.ts.  The requests modelled here pass    *)
(* validation.                                                               *)

\* The placeholder every response but reveal carries as password: eight U+2022
Mask == [i \in 1..8 |-> 8226]

\* Secrets a client supplies (UTF-16 code units, at least 8 of them):
\* "Tr0ub4dor&3"; one with two-byte characters whose UTF-8 form fills a whole
\* block; one with a lone surrogate.
SecretAscii == <<84, 114, 48, 117, 98, 52, 100, 111, 114, 38, 51>>
SecretBlock == <<112, 228, 115, 115, 119, 246, 114, 100, 45, 49, 50, 51, 52, 53>>
SecretLone == <<55357, 97, 98, 99, 100, 101, 102, 103>>
Secrets == {SecretAscii, SecretBlock, SecretLone}

\* The salt CryptoJS draws at random for each encryption
Salts == {3, 250}

UpdateBodies ==
    {[hasPassword |-> TRUE, password |-> x] : x \in Secrets}
        \cup {[hasPassword |-> FALSE, password |-> <<>>]}

VaultOps == {"list", "get", "reveal", "create", "update", "delete"}

CatId(c) == <<c.userId, c.type, c.name>>

\* findFirst on every row with that id, whoever owns it and deleted or not
findEntryUnscoped(id, userId) == {p \in vault : p.id = id}

\* findFirst({where: {id, userId, isDeleted: false}})
findEntry(id, userId) ==
    {p \in vault : p.id = id /\ p.userId = userId /\ ~p.isDeleted}

\* passwordCategory.findFirst({where: {id: categoryId, userId, isDeleted: false}})
findCategory(categoryId, userId) ==
    {c \in categories : CatId(c) = categoryId /\ c.userId = userId
                           /\ c.type = "password" /\ ~c.isDeleted}

\* The entry as a response would show it were the stored column passed on
unmaskedEntry(p) == [id |-> p.id, password |-> p.encryptedPassword]

\* The entry as the responses of list, get, create and update show it
maskedEntry(p) == [id |-> p.id, password |-> Mask]

\* What a vault response carries: the entries of its body, and of the request
\* it answers the caller, the entry id, the account password supplied and the
\* tables the handler has read (history, for the properties below).
VaultData(req, id, supplied, tables, body) ==
    [k |-> "vault", caller |-> req.user.userId, id |-> id, supplied |-> supplied,
     tables |-> tables, body |-> body]

VaultError(req, id, supplied, tables, err) ==
    [errorHandler(req.op, err) EXCEPT !.data = VaultData(req, id, supplied, tables, {})]

VaultUnchanged ==
    /\ UNCHANGED clientVars
    /\ UNCHANGED tasks
    /\ UNCHANGED <<now, users, categories, ledger, nextRow, nreq,
                   accessOut, refreshOut, superseded, revoked>>

\* getPasswords: findMany({where: {userId, isDeleted: false}})
GetPasswords(s) ==
    /\ reqs[s].op = "list" /\ reqs[s].pc = "handler"
    /\ LET userId == reqs[s].user.userId
           passwords == {p \in vault : p.userId = userId /\ ~p.isDeleted}
       IN Respond(s, Resp("list", 200, "",
                  VaultData(reqs[s], 0, <<>>, {"vault"}, {maskedEntry(p) : p \in passwords})))
    /\ UNCHANGED vaultVars
    /\ VaultUnchanged

\* getPassword
GetPassword(s, id) ==
    /\ reqs[s].op = "get" /\ reqs[s].pc = "handler"
    /\ LET password == findEntry(id, reqs[s].user.userId) IN
       IF password = {}
       THEN Respond(s, VaultError(reqs[s], id, <<>>, {"vault"},
                                  ApiError(404, "Password entry not found")))
       ELSE Respond(s, Resp("get", 200, "",
                  VaultData(reqs[s], id, <<>>, {"vault"}, {maskedEntry(p) : p \in password})))
    /\ UNCHANGED vaultVars
    /\ VaultUnchanged

\* revealPassword as it would be without the comparison of the password
RevealUnverified(s, id, userPassword) ==
    /\ reqs[s].op = "reveal" /\ reqs[s].pc = "handler"
    /\ Continue(s, [reqs[s] EXCEPT !.pc = "load"] @@ [id |-> id, supplied |-> userPassword])
    /\ UNCHANGED vaultVars
    /\ VaultUnchanged

\* revealPassword up to bcrypt.compare: the user row, then the comparison
RevealVerify(s, id, userPassword) ==
    /\ reqs[s].op = "reveal" /\ reqs[s].pc = "handler"
    /\ LET user == {u \in users : u.id = reqs[s].user.userId} IN
       IF user = {}
       THEN Respond(s, VaultError(reqs[s], id, userPassword, {"user"},
                                  ApiError(401, "User not found")))
       ELSE IF ~\E u \in user : bcryptCompare(userPassword, u.password)
       THEN Respond(s, VaultError(reqs[s], id, userPassword, {"user"},
                                  ApiError(401, "Invalid password")))
       ELSE Continue(s, [reqs[s] EXCEPT !.pc = "load"]
                         @@ [id |-> id, supplied |-> userPassword])
    /\ UNCHANGED vaultVars
    /\ VaultUnchanged

\* revealPassword as it would be if it told a foreign or deleted entry from
\* an absent one
RevealLoadTelling(s) ==
    /\ reqs[s].op = "reveal" /\ reqs[s].pc = "load"
    /\ LET r == reqs[s]
           any == findEntryUnscoped(r.id, r.user.userId)
           passwordEntry == findEntry(r.id, r.user.userId)
       IN IF any = {}
          THEN Respond(s, VaultError(r, r.id, r.supplied, {"user", "vault"},
                                     ApiError(404, "Password entry not found")))
          ELSE IF passwordEntry = {}
          THEN Respond(s, VaultError(r, r.id, r.supplied, {"user", "vault"},
                                     ApiError(403, "Access denied")))
          ELSE \E p \in passwordEntry :
                 Respond(s, Resp("reveal", 200, "",
                          VaultData(r, r.id, r.supplied, {"user", "vault"},
                                    {[id |-> r.id, password |-> decryptPassword(p.encryptedPassword)]})))
    /\ UNCHANGED vaultVars
    /\ VaultUnchanged

\* revealPassword from the load of the entry on
RevealLoad(s) ==
    /\ reqs[s].op = "reveal" /\ reqs[s].pc = "load"
    /\ LET r == reqs[s]
           passwordEntry == findEntry(r.id, r.user.userId)
       IN IF passwordEntry = {}
          THEN Respond(s, VaultError(r, r.id, r.supplied, {"user", "vault"},
                                     ApiError(404, "Password entry not found")))
          ELSE \E p \in passwordEntry :
                 LET decryptedPassword == decryptPassword(p.encryptedPassword) IN
                 IF decryptedPassword = Malformed
                 THEN Respond(s, VaultError(r, r.id, r.supplied, {"user", "vault"},
                                            Thrown("Malformed UTF-8 data")))
                 ELSE Respond(s, Resp("reveal", 200, "",
                          VaultData(r, r.id, r.supplied, {"user", "vault"},
                                    {[id |-> r.id, password |-> decryptedPassword]})))
    /\ UNCHANGED vaultVars
    /\ VaultUnchanged

\* createPassword up to the check of the category
CreateCheck(s, categoryId, password) ==
    /\ reqs[s].op = "create" /\ reqs[s].pc = "handler"
    /\ Len(secretOf) + Cardinality({c \in Slots : reqs[c].op = "create" /\ reqs[c].pc = "write"})
           < MaxEntries
    /\ IF findCategory(categoryId, reqs[s].user.userId) = {}
       THEN Respond(s, VaultError(reqs[s], 0, <<>>, {"category"},
                                  ApiError(400, "Invalid category")))
       ELSE Continue(s, [reqs[s] EXCEPT !.pc = "write"]
                         @@ [categoryId |-> categoryId, password |-> password])
    /\ UNCHANGED vaultVars
    /\ VaultUnchanged

\* createPassword from encryptPassword on: the row is created with the
\* ciphertext, and the response shows it masked
CreateWrite(s) ==
    /\ reqs[s].op = "create" /\ reqs[s].pc = "write"
    /\ LET r == reqs[s] IN
       IF ~CanEncrypt(r.password)
       THEN /\ Respond(s, VaultError(r, 0, <<>>, {"category"}, Thrown("URI malformed")))
            /\ UNCHANGED vaultVars
       ELSE \E salt \in Salts :
              LET passwordEntry ==
                      [id |-> Len(secretOf) + 1, userId |-> r.user.userId,
                       encryptedPassword |-> encryptPassword(r.password, salt),
                       categoryId |-> r.categoryId, isDeleted |-> FALSE]
              IN /\ vault' = vault \cup {passwordEntry}
                 /\ secretOf' = Append(secretOf, r.password)
                 /\ Respond(s, Resp("create", 201, "Password saved securely",
                        VaultData(r, passwordEntry.id, <<>>, {"category", "vault"},
                                  {maskedEntry(passwordEntry)})))
    /\ VaultUnchanged

\* updatePassword up to the check that the entry exists and is the caller's
UpdateFind(s, id, body) ==
    /\ reqs[s].op = "update" /\ reqs[s].pc = "handler"
    /\ IF findEntry(id, reqs[s].user.userId) = {}
       THEN Respond(s, VaultError(reqs[s], id, <<>>, {"vault"},
                                  ApiError(404, "Password entry not found")))
       ELSE Continue(s, [reqs[s] EXCEPT !.pc = "write"] @@ [id |-> id, body |-> body])
    /\ UNCHANGED vaultVars
    /\ VaultUnchanged

\* updatePassword from updateData on: update({where: {id}, data: updateData})
UpdateWrite(s) ==
    /\ reqs[s].op = "update" /\ reqs[s].pc = "write"
    /\ LET r == reqs[s] IN
       IF r.body.hasPassword /\ ~CanEncrypt(r.body.password)
       THEN /\ Respond(s, VaultError(r, r.id, <<>>, {"vault"}, Thrown("URI malformed")))
            /\ UNCHANGED vaultVars
       ELSE \E salt \in Salts :
              LET updated(p) ==
                      IF r.body.hasPassword
                      THEN [p EXCEPT !.encryptedPassword = encryptPassword(r.body.password, salt)]
                      ELSE p
              IN /\ vault' = {IF p.id = r.id THEN updated(p) ELSE p : p \in vault}
                 /\ secretOf' = IF r.body.hasPassword
                                 THEN [secretOf EXCEPT ![r.id] = r.body.password]
                                 ELSE secretOf
                 /\ Respond(s, Resp("update", 200, "Password updated successfully",
                        VaultData(r, r.id, <<>>, {"vault"},
                                  {maskedEntry(updated(p)) : p \in {q \in vault : q.id = r.id}})))
    /\ VaultUnchanged

\* deletePassword up to the check that the entry exists and is the caller's
DeleteFind(s, id) ==
    /\ reqs[s].op = "delete" /\ reqs[s].pc = "handler"
    /\ IF findEntry(id, reqs[s].user.userId) = {}
       THEN Respond(s, VaultError(reqs[s], id, <<>>, {"vault"},
                                  ApiError(404, "Password entry not found")))
       ELSE Continue(s, [reqs[s] EXCEPT !.pc = "write"] @@ [id |-> id])
    /\ UNCHANGED vaultVars
    /\ VaultUnchanged

\* deletePassword: update({where: {id}, data: {isDeleted: true}})
DeleteWrite(s) ==
    /\ reqs[s].op = "delete" /\ reqs[s].pc = "write"
    /\ vault' = {IF p.id = reqs[s].id THEN [p EXCEPT !.isDeleted = TRUE] ELSE p : p \in vault}
    /\ Respond(s, Resp("delete", 200, "Password entry deleted successfully",
                  VaultData(reqs[s], reqs[s].id, <<>>, {"vault"}, {})))
    /\ UNCHANGED secretOf
    /\ VaultUnchanged

-----------------------------------------------------------------------------
(* Sessions of one account: signup, login, logout and refresh requests on two *)
(* connections.                                                              *)

SessionSignups == {<<"a@x.com", PwA>>}

\* Instants around the deadlines of a refresh token issued at time 0.
SessionInstants ==
    {0, TicksPerSec,
     (REFRESH_EXPIRES - 60 * 60) * TicksPerSec + 1,
     REFRESH_EXPIRES * TicksPerSec + 1}

Next ==
    \/ Advance(SessionInstants)
    \/ \E s \in Slots, in \in SessionSignups : SignupFind(s, in[1], in[2])
    \/ \E s \in Slots : SignupCreateUser(s, DstShifts)
    \/ \E s \in Slots : SignupStoreToken(s)
    \/ \E s \in Slots, e \in Emails, p \in Passwords : LoginFind(s, e, p)
    \/ \E s \in Slots : LoginDeleteMany(s, DstShifts)
    \/ \E s \in Slots : LoginStoreToken(s)
    \/ \E s \in Slots, t \in accessOut : Authenticate(s, Bearer(t), "logout")
    \/ \E s \in Slots : Logout(s)
    \/ \E s \in Slots, t \in KnownTokens : Refresh(s, t)
    \/ \E s \in Slots : RefreshCleanup(s)

Spec == Init /\ [][Next]_vars

RefreshAnswered == lastResp.op = "refresh" /\ lastResp.data.k = "refresh"

\* C1: in every reachable state the refresh-token ledger holds at most one row
\* per user, whatever the interleaving of signup, login, logout and refresh.
C1_AtMostOneRowPerUser ==
    \A e \in Emails : Cardinality(UserRows(IdOf(e))) <= 1

\* C2: once a login has completed after an earlier session of the same user,
\* a refresh presenting the earlier session's refresh token is answered 401
\* and mints no access token.
C2_SecondLoginInvalidatesFirst ==
    (RefreshAnswered /\ lastResp.data.wasSuperseded)
        => (lastResp.status = 401 /\ lastResp.data.accessToken = NoTok)

\* C3: after a logout of a user, a refresh presenting a refresh token that the
\* user received before the logout is answered 401, until the user logs in again.
C3_LogoutRevokesRefreshTokens ==
    (RefreshAnswered /\ lastResp.data.wasRevoked) => lastResp.status = 401

\* The presented refresh token is held in the ledger and neither its exp claim
\* nor its row's expiresAt has passed.
HeldUnexpired(token) ==
    /\ token.sig = REFRESH_SECRET
    /\ Seconds(now) < token.exp
    /\ \E row \in ledger : row.token = token /\ row.expiresAt >= now

\* The step is the first of a refresh request: it answers it or goes on to
\* the cleanup of the expired row.
RefreshStarts ==
    \E s \in Slots : reqs[s] = Idle /\ (lastResp'.op = "refresh" \/ reqs'[s].op = "refresh")

\* C9: a successful refresh leaves the ledger as it was, and a refresh token that
\* is held and unexpired is answered 200 with an access token for its user every
\* time it is presented.
C9_RefreshDoesNotRotate ==
    [][RefreshStarts =>
          \A s \in Slots, t \in KnownTokens :
              Refresh(s, t) =>
                  /\ (reqs'[s].op = "idle" /\ lastResp'.status = 200) => ledger' = ledger
                  /\ HeldUnexpired(t) =>
                         /\ reqs'[s].op = "idle"
                         /\ lastResp'.status = 200
                         /\ lastResp'.data.accessToken.sig = ACCESS_SECRET
                         /\ Payload(lastResp'.data.accessToken) = Payload(t)
                         /\ HeldUnexpired(t)']_vars

C9_Witness ==
    /\ RefreshAnswered
    /\ lastResp.status = 200
    /\ \E row \in ledger : row.token = lastResp.data.presented

\* C10: a refresh presenting a token whose ledger row has expiresAt in the past
\* is answered 401 and that request removes the row from the ledger.
C10_ExpiredRowRemoved ==
    (RefreshAnswered /\ lastResp.data.rowExpired)
        => (lastResp.status = 401 /\ ~lastResp.data.rowRemains)

-----------------------------------------------------------------------------
(* The authenticate middleware in front of GET /auth/me, with accounts being *)
(* soft-deleted and tokens expiring.                                         *)

\* Instants around the deadline of an access token issued at time 0.
MwInstants ==
    {0, ACCESS_EXPIRES * TicksPerSec - 1, ACCESS_EXPIRES * TicksPerSec,
     ACCESS_EXPIRES * TicksPerSec + 1}

MwNext ==
    \/ Advance(MwInstants)
    \/ \E s \in Slots, in \in SessionSignups : SignupFind(s, in[1], in[2])
    \/ \E s \in Slots : SignupCreateUser(s, DstShifts)
    \/ \E s \in Slots : SignupStoreToken(s)
    \/ \E s \in Slots, h \in Headers : Authenticate(s, h, "me")
    \/ \E s \in Slots : GetMe(s)
    \/ \E e \in Emails : SoftDeleteUser(e)

MwSpec == Init /\ [][MwNext]_vars

\* The middleware passed the request on with this principal / ended it with 401.
Accepted(s, user) ==
    /\ reqs'[s].op = "me" /\ reqs'[s].pc = "handler"
    /\ reqs'[s].user = user
    /\ lastResp' = Quiet

Rejected401(s) ==
    /\ reqs'[s] = Idle
    /\ lastResp'.op = "me" /\ lastResp'.status = 401

\* The token carried by the header verifies under the access secret, is
\* unexpired, and names a user row that exists and is not soft-deleted.
TokenGood(tok) ==
    /\ tok.sig = ACCESS_SECRET
    /\ Seconds(now) < tok.exp
    /\ \E u \in users : u.id = tok.userId /\ u.isDeleted = FALSE

\* C4 as stated: the request proceeds, with req.user = {userId, email} of the
\* token, if and only if the header is exactly 'Bearer <token>' and the token is
\* good; in every other case it is ended with 401 before the handler.
C4_AuthenticateIffBearerToken ==
    [][\A s \in Slots, h \in Headers :
          Authenticate(s, h, "me") =>
              IF Len(h) = 2 /\ h[1].s = "Bearer" /\ h[2].s = "jwt" /\ TokenGood(h[2].tok)
              THEN Accepted(s, Payload(h[2].tok))
              ELSE Rejected401(s)]_vars

\* C4 amended: the same, for a header that starts with 'Bearer ' and whose
\* second space-separated field is the token; what follows a further space is
\* not looked at.
C4_AuthenticateIffSecondField ==
    [][\A s \in Slots, h \in Headers :
          Authenticate(s, h, "me") =>
              IF Len(h) >= 2 /\ h[1].s = "Bearer" /\ h[2].s = "jwt" /\ TokenGood(h[2].tok)
              THEN Accepted(s, Payload(h[2].tok))
              ELSE Rejected401(s)]_vars

\* A request was passed to the handler and another one, carrying the access
\* token of a soft-deleted user, was ended with 401.
C4_Witness ==
    /\ \E s \in Slots : reqs[s].op = "me" /\ reqs[s].pc = "handler"
    /\ lastResp.op = "me" /\ lastResp.status = 401
    /\ lastResp.data.k = "rejected"
    /\ Len(lastResp.data.header) = 2
    /\ lastResp.data.header[2].tok.sig = ACCESS_SECRET
    /\ \E u \in users : u.id = lastResp.data.header[2].tok.userId /\ u.isDeleted

\* C5: at every time later than an access token's expiry deadline the token
\* fails verification, and a request carrying it is ended with 401, whatever
\* its signature and the state of the user row.
C5_ExpiredAccessTokenRejected ==
    [][\A s \in Slots, h \in Headers :
          (/\ Authenticate(s, h, "me")
           /\ Len(h) >= 2 /\ h[2].s = "jwt"
           /\ now > h[2].tok.exp * TicksPerSec)
              => /\ ~verifyAccessToken(h[2].tok, now)
                 /\ Rejected401(s)]_vars

\* A request carrying a correctly signed access token of a live user was ended
\* with 401 after the token's deadline.
C5_Witness ==
    /\ lastResp.op = "me" /\ lastResp.status = 401
    /\ lastResp.data.k = "rejected"
    /\ lastResp.data.header \in {Bearer(t) : t \in accessOut}
    /\ now > lastResp.data.header[2].tok.exp * TicksPerSec
    /\ \E u \in users : u.id = lastResp.data.header[2].tok.userId /\ ~u.isDeleted

-----------------------------------------------------------------------------
(* The vault of two accounts: each signs up, and vault requests of both run  *)
(* on two connections.  No daylight-saving change falls in the week after.   *)

NoDst == {0}

EntryIds == 1..MaxEntries

\* The category ids a client sends: the category "Social" of either account
CategoryInputs == {<<IdOf(e), "password", "Social">> : e \in Emails}

VaultNext ==
    \/ \E s \in Slots, in \in SignupInputs : SignupFind(s, in[1], in[2])
    \/ \E s \in Slots : SignupCreateUser(s, NoDst)
    \/ \E s \in Slots : SignupStoreToken(s)
    \/ \E s \in Slots, t \in accessOut, op \in VaultOps : Authenticate(s, Bearer(t), op)
    \/ \E s \in Slots : GetPasswords(s)
    \/ \E s \in Slots, id \in EntryIds : GetPassword(s, id)
    \/ \E s \in Slots, id \in EntryIds, pw \in Passwords : RevealVerify(s, id, pw)
    \/ \E s \in Slots : RevealLoad(s)
    \/ \E s \in Slots, c \in CategoryInputs, x \in Secrets : CreateCheck(s, c, x)
    \/ \E s \in Slots : CreateWrite(s)
    \/ \E s \in Slots, id \in EntryIds, b \in UpdateBodies : UpdateFind(s, id, b)
    \/ \E s \in Slots : UpdateWrite(s)
    \/ \E s \in Slots, id \in EntryIds : DeleteFind(s, id)
    \/ \E s \in Slots : DeleteWrite(s)

VaultSpec == Init /\ [][VaultNext]_vars

\* The entries a response shows
BodyOf(resp) == IF resp.data.k = "vault" THEN resp.data.body ELSE {}

\* A response shows the stored column or the secret of some entry of the vault
Leaks(resp) ==
    \E b \in BodyOf(resp), p \in vault :
        b.password = p.encryptedPassword \/ b.password = secretOf[p.id]

RevealAnswered == lastResp.op = "reveal" /\ lastResp.data.k = "vault"

\* The password a reveal request supplied is the one the caller's row hashes
SuppliedMatches(resp) ==
    \E u \in users : u.id = resp.data.caller /\ u.password = bcryptHash(resp.data.supplied)

\* C6: a reveal request that passed authenticate and supplies a password other
\* than the caller's is answered 401, whatever the entry id names; its
\* response shows neither the secret nor the stored column of any entry, and
\* the handler has not read the vault table.
C6_WrongPasswordRevealsNothing ==
    (RevealAnswered /\ ~SuppliedMatches(lastResp))
        => /\ lastResp.status = 401
           /\ ~Leaks(lastResp)
           /\ BodyOf(lastResp) = {}
           /\ "vault" \notin lastResp.data.tables

\* The wrong password was supplied for an entry the caller owns.
C6_Witness ==
    /\ RevealAnswered /\ ~SuppliedMatches(lastResp)
    /\ \E p \in vault : p.id = lastResp.data.id /\ p.userId = lastResp.data.caller
                          /\ ~p.isDeleted

\* C7: when reveal, past the password check, loads entry id for caller U: if
\* the entry is U's and not soft-deleted the answer is 200 with exactly the
\* secret last stored for it by createPassword or updatePassword; if it is
\* another user's, soft-deleted or absent the answer is 404 without a secret.
C7_RevealReturnsLastSecretOfOwnEntry ==
    [][\A s \in Slots :
          (reqs[s].op = "reveal" /\ reqs[s].pc = "load" /\ reqs'[s] = Idle)
              => IF \E p \in vault : p.id = reqs[s].id /\ p.userId = reqs[s].user.userId
                                       /\ ~p.isDeleted
                 THEN /\ lastResp'.status = 200
                      /\ BodyOf(lastResp') = {[id |-> reqs[s].id, password |-> secretOf[reqs[s].id]]}
                 ELSE /\ lastResp'.status = 404
                      /\ BodyOf(lastResp') = {}]_vars

\* A reveal returned the secret with two-byte characters, stored by an update
\* over the secret the entry was created with.
C7_Witness ==
    /\ RevealAnswered /\ lastResp.status = 200
    /\ BodyOf(lastResp) = {[id |-> lastResp.data.id, password |-> SecretBlock]}
    /\ \E p \in vault : p.id = lastResp.data.id /\ p.userId = lastResp.data.caller
                          /\ decryptPassword(p.encryptedPassword) = SecretBlock

\* C8: every row of the vault holds the ciphertext of its secret, never the
\* secret; what list, get, create, update and delete answer shows the mask as
\* password and neither secret nor ciphertext of any entry; a response that
\* shows a secret is a successful reveal.
C8_OnlyRevealCarriesPlaintext ==
    /\ \A p \in vault : /\ p.encryptedPassword # secretOf[p.id]
                          /\ decryptPassword(p.encryptedPassword) = secretOf[p.id]
    /\ lastResp.op \in {"list", "get", "create", "update", "delete"}
          => /\ \A b \in BodyOf(lastResp) : b.password = Mask
             /\ ~Leaks(lastResp)
    /\ (\E b \in BodyOf(lastResp), p \in vault : b.password = secretOf[p.id])
          => (lastResp.op = "reveal" /\ lastResp.status = 200)

\* A list request was answered with an entry of the vault, masked.
C8_Witness ==
    /\ lastResp.op = "list" /\ lastResp.status = 200
    /\ \E b \in BodyOf(lastResp), p \in vault : b.id = p.id /\ b.password = Mask

\* C12: for every Authorization header and every state of the store,
\* optionalAuth attaches a principal exactly when authenticate accepts the
\* header in that state, and then the same principal; in particular none for
\* a valid token whose user is absent or soft-deleted.
C12_OptionalAuthAsAuthenticate ==
    \A h \in Headers :
        LET o == optionalAuth(h, now)
            a == authenticate(h, now)
        IN /\ o.attached <=> a.ok
           /\ a.ok => o.user = a.user

\* What the caller sees of a response
Visible(resp) == [status |-> resp.status, message |-> resp.message, body |-> BodyOf(resp)]

\* The entry a reveal names is the caller's own and not soft-deleted
OwnLive(resp) ==
    \E p \in vault : p.id = resp.data.id /\ p.userId = resp.data.caller /\ ~p.isDeleted

\* C13: what the caller sees of a reveal response is the same in all states
\* in which the entry named is absent, soft-deleted or another user's: with
\* a wrong account password 401 'Invalid password' (also when the entry is
\* the caller's own), with the right one 404 'Password entry not found',
\* both without a body.
C13_RevealHidesExistence ==
    RevealAnswered =>
        IF ~SuppliedMatches(lastResp)
        THEN Visible(lastResp) = [status |-> 401, message |-> "Invalid password", body |-> {}]
        ELSE ~OwnLive(lastResp) =>
                 Visible(lastResp) = [status |-> 404, message |-> "Password entry not found",
                                      body |-> {}]

\* The right password was supplied for an entry that exists, is not deleted
\* and is another user's.
C13_Witness ==
    /\ RevealAnswered /\ SuppliedMatches(lastResp) /\ lastResp.status = 404
    /\ \E p \in vault : p.id = lastResp.data.id /\ p.userId # lastResp.data.caller
                          /\ ~p.isDeleted

-----------------------------------------------------------------------------
(* Stored ciphertext that the current key does not decrypt: a row whose      *)
(* column was damaged in the store, and a row written while AES_SECRET_KEY   *)
(* had another value.  One account creates entries and reveals them.         *)

\* A value AES_SECRET_KEY had in an earlier deployment
OTHER_KEY == "an-earlier-32-char-secret-key!!!"

\* encryptPassword as the server ran it under that key
encryptUnder(password, passphrase, salt) ==
    <<salt>> \o Encipher(Pkcs7Pad(Utf8Parse(password)), DeriveKey(passphrase, salt))

\* The stored column is what the current key made of the entry's secret
Intact(p) == \E salt \in Salts : p.encryptedPassword = encryptPassword(secretOf[p.id], salt)

\* Damage to one byte of a stored column: the first or the last byte of the
\* ciphertext proper, by one or by half the range
Damaged(ct) ==
    {[ct EXCEPT ![i] = (ct[i] + d) % 256] : i \in {2, Len(ct)}, d \in {1, 128}}

CorruptEntry(id) ==
    /\ \E p \in vault : p.id = id /\ Intact(p)
    /\ \E p \in vault :
          /\ p.id = id
          /\ \E ct \in Damaged(p.encryptedPassword) :
                vault' = (vault \ {p}) \cup {[p EXCEPT !.encryptedPassword = ct]}
    /\ lastResp' = Quiet
    /\ UNCHANGED <<secretOf, reqs>>
    /\ VaultUnchanged

\* The row dates from the deployment under OTHER_KEY
StoredUnderOtherKey(id) ==
    /\ \E p \in vault : p.id = id /\ Intact(p)
    /\ \E p \in vault :
          /\ p.id = id
          /\ vault' = (vault \ {p}) \cup
                 {[p EXCEPT !.encryptedPassword =
                       encryptUnder(secretOf[id], OTHER_KEY, Head(p.encryptedPassword))]}
    /\ lastResp' = Quiet
    /\ UNCHANGED <<secretOf, reqs>>
    /\ VaultUnchanged

DecryptNext ==
    \/ \E s \in Slots, in \in SessionSignups : SignupFind(s, in[1], in[2])
    \/ \E s \in Slots : SignupCreateUser(s, NoDst)
    \/ \E s \in Slots : SignupStoreToken(s)
    \/ \E s \in Slots, t \in accessOut, op \in {"create", "reveal"} :
           Authenticate(s, Bearer(t), op)
    \/ \E s \in Slots, c \in CategoryInputs, x \in Secrets : CreateCheck(s, c, x)
    \/ \E s \in Slots : CreateWrite(s)
    \/ \E s \in Slots, id \in EntryIds, pw \in Passwords : RevealVerify(s, id, pw)
    \/ \E s \in Slots : RevealLoad(s)
    \/ \E id \in EntryIds : CorruptEntry(id)
    \/ \E id \in EntryIds : StoredUnderOtherKey(id)

DecryptSpec == Init /\ [][DecryptNext]_vars

\* C14: a reveal with the right account password of an own, live entry whose
\* stored column is damaged or was written under another key is answered
\* with an error and without a password; never 200.
C14_BadCiphertextIsAnError ==
    (RevealAnswered /\ SuppliedMatches(lastResp))
        => \A p \in vault :
               (p.id = lastResp.data.id /\ p.userId = lastResp.data.caller
                  /\ ~p.isDeleted /\ ~Intact(p))
                   => (lastResp.status >= 400 /\ BodyOf(lastResp) = {})

-----------------------------------------------------------------------------
(* Credentials: an account signs up with a long password, logins try that    *)
(* password and others, and the account may be soft-deleted.                 *)

\* "P1!" followed by 70 letters: 73 characters, allowed by signupValidator
PwLong == <<80, 49, 33>> \o [i \in 1..70 |-> 97]

\* The same with another last character
PwLongOther == [PwLong EXCEPT ![Len(PwLong)] = 98]

CredSignups == {<<"a@x.com", PwLong>>}
CredPasswords == {PwLong, PwLongOther, PwB}

\* The password the account of this email signed up with
PlainOf(email) == CHOOSE p \in CredPasswords : <<email, p>> \in CredSignups

\* Two clock seconds in which the requests run
CredInstants == {0, TicksPerSec}

CredNext ==
    \/ Advance(CredInstants)
    \/ \E s \in Slots, in \in CredSignups : SignupFind(s, in[1], in[2])
    \/ \E s \in Slots : SignupCreateUser(s, NoDst)
    \/ \E s \in Slots : SignupStoreToken(s)
    \/ \E s \in Slots, e \in Emails, p \in CredPasswords : LoginFind(s, e, p)
    \/ \E s \in Slots : LoginDeleteMany(s, NoDst)
    \/ \E s \in Slots : LoginStoreToken(s)
    \/ \E e \in Emails : SoftDeleteUser(e)

CredSpec == Init /\ [][CredNext]_vars

\* C15: the credential stored for a user that signup(email, p) created is a
\* bcrypt hash, never p itself, and while the user is not deleted a login
\* with that email and password p' passes the credential check and is
\* answered 200 if p' = p, and is answered 401 if p' # p.
C15_LoginIffSamePassword ==
    [][/\ \A u \in users' : u.password # [alg |-> "plain", cost |-> 0, digest |-> PlainOf(u.email)]
                              /\ u.password.alg = "2a"
       /\ \A s \in Slots, e \in Emails, p \in CredPasswords :
              (LoginFind(s, e, p) /\ \E u \in users : u.email = e /\ ~u.isDeleted)
                  => IF p = PlainOf(e)
                     THEN reqs'[s].op = "login"
                     ELSE reqs'[s] = Idle /\ lastResp'.status = 401
       /\ \A s \in Slots :
              (LoginStoreToken(s) /\ \E u \in users : u.email = reqs[s].email /\ ~u.isDeleted)
                  => lastResp'.status = 200]_vars

\* The email and password are those of an account that is not deleted
ValidCredentials(email, password) ==
    \E u \in users : u.email = email /\ ~u.isDeleted /\ u.password = bcryptHash(password)

C17_TakenEmailIs400 ==
    [][/\ \A s \in Slots :
             (/\ \/ \E e \in Emails, p \in CredPasswords : SignupFind(s, e, p) /\ \E u \in users : u.email = e
                 \/ SignupCreateUser(s, NoDst) /\ \E u \in users : u.email = reqs[s].email)
                 => /\ lastResp' = Resp("signup", 400, "Email already registered", NoData)
                    /\ UNCHANGED <<users, categories, ledger>>
       /\ \A u, v \in users' : u.email = v.email => u = v]_vars

\* C18: the refresh token a successful login returns is none of the refresh
\* tokens issued before, by signup or by an earlier login, to that user.
C18_LoginTokenIsFresh ==
    [][\A s \in Slots :
          (LoginStoreToken(s) /\ lastResp'.status = 200)
              => lastResp'.data.refreshToken
                     \notin {t \in refreshOut : t.userId = IdOf(reqs[s].email)}]_vars

-----------------------------------------------------------------------------
(* Tokens of either class presented to either verifier: one account signs    *)
(* up, logs in and out, and any token it holds is sent as the bearer token   *)
(* of GET /auth/me and as the body of POST /auth/refresh.                    *)

TokenInstants == {0, TicksPerSec}

TokenNext ==
    \/ Advance(TokenInstants)
    \/ \E s \in Slots, in \in SessionSignups : SignupFind(s, in[1], in[2])
    \/ \E s \in Slots : SignupCreateUser(s, NoDst)
    \/ \E s \in Slots : SignupStoreToken(s)
    \/ \E s \in Slots, in \in SessionSignups : LoginFind(s, in[1], in[2])
    \/ \E s \in Slots : LoginDeleteMany(s, NoDst)
    \/ \E s \in Slots : LoginStoreToken(s)
    \/ \E s \in Slots, t \in KnownTokens, op \in {"me", "logout"} :
           Authenticate(s, Bearer(t), op)
    \/ \E s \in Slots : GetMe(s)
    \/ \E s \in Slots : Logout(s)
    \/ \E s \in Slots, t \in KnownTokens : Refresh(s, t)

TokenSpec == Init /\ [][TokenNext]_vars

\* C11: in every state, whatever the ledger holds, authenticate accepts no
\* header built on a token that generateRefreshToken minted, and no refresh
\* request presenting a token that generateAccessToken minted is answered
\* otherwise than 401 without an access token.
C11_TokenClassesNotInterchangeable ==
    /\ \A t \in refreshOut : \A h \in HeadersOf(t) : ~authenticate(h, now).ok
    /\ (RefreshAnswered /\ lastResp.data.presented \in accessOut)
          => (lastResp.status = 401 /\ lastResp.data.accessToken = NoTok)

\* A refresh token still in the ledger, of a live user, was sent as bearer
\* token and rejected.
C11_Witness ==
    /\ lastResp.status = 401 /\ lastResp.data.k = "rejected"
    /\ \E t \in refreshOut :
          /\ lastResp.data.header = Bearer(t)
          /\ \E row \in ledger : row.token = t
          /\ LiveUser(t.userId) # {}

-----------------------------------------------------------------------------
(* controllers/category.controller.ts: the categories of an account after    *)
(* signup. A row is told from the others of its table by (userId, type,      *)
(* name) and isDeleted, as in CatId.                                         *)

\* createCategory up to the check that the name is not taken
CreateCategoryFind(s, name, type) ==
    /\ reqs[s].op = "createCategory" /\ reqs[s].pc = "handler"
    /\ LET userId == reqs[s].user.userId
           existing == {c \in categories : c.name = name /\ c.userId = userId
                                             /\ c.type = type /\ ~c.isDeleted}
       IN IF type \notin {"transaction", "password"}
          THEN Respond(s, errorHandler("createCategory", ApiError(400, "Invalid category type")))
          ELSE IF existing # {}
          THEN Respond(s, errorHandler("createCategory", ApiError(400, "Category already exists")))
          ELSE Continue(s, [reqs[s] EXCEPT !.pc = "write"] @@ [name |-> name, type |-> type])
    /\ UNCHANGED vaultVars
    /\ VaultUnchanged

\* createCategory: create({data: {name, userId, isDefault: false}})
CreateCategoryWrite(s) ==
    /\ reqs[s].op = "createCategory" /\ reqs[s].pc = "write"
    /\ categories' = categories \cup
           {[userId |-> reqs[s].user.userId, type |-> reqs[s].type, name |-> reqs[s].name,
             isDefault |-> FALSE, isDeleted |-> FALSE]}
    /\ Respond(s, Resp("createCategory", 201, "Category created successfully", NoData))
    /\ UNCHANGED vaultVars
    /\ UNCHANGED clientVars
    /\ UNCHANGED tasks
    /\ UNCHANGED <<now, users, ledger, nextRow, nreq,
                   accessOut, refreshOut, superseded, revoked>>

\* The table a :type path parameter names
CategoryTable(type) ==
    IF type \in {"transaction", "transactions"} THEN "transaction"
    ELSE IF type \in {"password", "passwords"} THEN "password"
    ELSE "none"

\* deleteCategory as it would be without the test of isDefault
DeleteCategoryFindAnyRow(s, type, id) ==
    /\ reqs[s].op = "deleteCategory" /\ reqs[s].pc = "handler"
    /\ LET userId == reqs[s].user.userId
           table == CategoryTable(type)
           category == {c \in categories : CatId(c) = id /\ c.type = table
                                             /\ c.userId = userId /\ ~c.isDeleted}
       IN IF table = "none"
          THEN Respond(s, errorHandler("deleteCategory", ApiError(400, "Invalid category type")))
          ELSE IF category = {}
          THEN Respond(s, errorHandler("deleteCategory", ApiError(404, "Category not found")))
          ELSE Continue(s, [reqs[s] EXCEPT !.pc = "count"] @@ [id |-> id, table |-> table])
    /\ UNCHANGED vaultVars
    /\ VaultUnchanged

\* deleteCategory up to the tests that the category is the caller's and is
\* not a default one
DeleteCategoryFind(s, type, id) ==
    /\ reqs[s].op = "deleteCategory" /\ reqs[s].pc = "handler"
    /\ LET userId == reqs[s].user.userId
           table == CategoryTable(type)
           category == {c \in categories : CatId(c) = id /\ c.type = table
                                             /\ c.userId = userId /\ ~c.isDeleted}
       IN IF table = "none"
          THEN Respond(s, errorHandler("deleteCategory", ApiError(400, "Invalid category type")))
          ELSE IF category = {}
          THEN Respond(s, errorHandler("deleteCategory", ApiError(404, "Category not found")))
          ELSE IF \E c \in category : c.isDefault
          THEN Respond(s, errorHandler("deleteCategory",
                                       ApiError(400, "Cannot delete default categories")))
          ELSE Continue(s, [reqs[s] EXCEPT !.pc = "count"] @@ [id |-> id, table |-> table])
    /\ UNCHANGED vaultVars
    /\ VaultUnchanged

\* deleteCategory: the count of the rows that use the category. The vault rows
\* are counted; the transactions are not part of the state, so that count is
\* either outcome.
DeleteCategoryCount(s) ==
    /\ reqs[s].op = "deleteCategory" /\ reqs[s].pc = "count"
    /\ \E inUse \in IF reqs[s].table = "password"
                    THEN {\E p \in vault : p.categoryId = reqs[s].id /\ ~p.isDeleted}
                    ELSE BOOLEAN :
          IF inUse
          THEN Respond(s, errorHandler("deleteCategory",
                                       ApiError(400, "Cannot delete category that is in use")))
          ELSE Continue(s, [reqs[s] EXCEPT !.pc = "write"])
    /\ UNCHANGED vaultVars
    /\ VaultUnchanged

\* deleteCategory: update({where: {id}, data: {isDeleted: true}})
DeleteCategoryWrite(s) ==
    /\ reqs[s].op = "deleteCategory" /\ reqs[s].pc = "write"
    /\ categories' = {IF CatId(c) = reqs[s].id /\ c.type = reqs[s].table
                      THEN [c EXCEPT !.isDeleted = TRUE] ELSE c : c \in categories}
    /\ Respond(s, Resp("deleteCategory", 200, "Category deleted successfully", NoData))
    /\ UNCHANGED vaultVars
    /\ UNCHANGED clientVars
    /\ UNCHANGED tasks
    /\ UNCHANGED <<now, users, ledger, nextRow, nreq,
                   accessOut, refreshOut, superseded, revoked>>

\* Names sent to POST /categories: one that is a default password category
\* and one that is no default.
CategoryNames == {"Social", "Pets"}

CategoryTypes == {"transaction", "password"}

\* :type parameters of DELETE /categories/:type/:id
CategoryTypeParams == {"transaction", "passwords", "vault"}

CategoryIds == {<<IdOf(e), t, n>> : e \in Emails, t \in CategoryTypes, n \in CategoryNames}

CategoryNext ==
    \/ \E s \in Slots, in \in SessionSignups : SignupFind(s, in[1], in[2])
    \/ \E s \in Slots : SignupCreateUser(s, NoDst)
    \/ \E s \in Slots : SignupStoreToken(s)
    \/ \E s \in Slots, t \in accessOut, op \in {"createCategory", "deleteCategory"} :
           Authenticate(s, Bearer(t), op)
    \/ \E s \in Slots, n \in CategoryNames, t \in CategoryTypes : CreateCategoryFind(s, n, t)
    \/ \E s \in Slots : CreateCategoryWrite(s)
    \/ \E s \in Slots, t \in CategoryTypeParams, id \in CategoryIds : DeleteCategoryFind(s, t, id)
    \/ \E s \in Slots : DeleteCategoryCount(s)
    \/ \E s \in Slots : DeleteCategoryWrite(s)

CategorySpec == Init /\ [][CategoryNext]_vars

\* C19: in every state, the rows of each account's two category tables that
\* are marked isDefault are exactly the predefined ones, none of them deleted;
\* in particular no User row is without them.
C19_DefaultsWithEveryUser ==
    \A u \in users :
        {c \in categories : c.userId = u.id /\ c.isDefault} = DefaultCategories(u.id)

\* An account asked for the deletion of one of its default categories after
\* it had created one of its own and deleted it.
C19_Witness ==
    /\ lastResp = Resp("deleteCategory", 400, "Cannot delete default categories", NoData)
    /\ \E u \in users, c \in categories : c.userId = u.id /\ ~c.isDefault /\ c.isDeleted

-----------------------------------------------------------------------------
(* Browser: AuthProvider and authService over the axios instance of          *)
(* lib/api.ts. A step runs from one network event to the next await of the   *)
(* network; the server is whatever answers: success, 401, 500 or no answer.  *)

Outcomes == {"success", "401", "500", "network failure"}

Calls == {"logout", "login", "me", "reveal"}

ClientPayload == [userId |-> IdOf("a@x.com"), email |-> "a@x.com"]
ClientUser == [id |-> IdOf("a@x.com"), email |-> "a@x.com"]

\* authService.logout as it would be with the clearing after the await
\* instead of in finally
afterLogoutCallThen(fulfilled, storage) == IF fulfilled THEN clearTokens ELSE storage

\* authService.logout: try { await api.post('/auth/logout') } finally { clearTokens() }
afterLogoutCall(fulfilled, storage) == clearTokens

ServerUnchanged ==
    UNCHANGED <<now, users, categories, ledger, nextRow, reqs, nreq, lastResp,
                accessOut, refreshOut, superseded, revoked, vault, secretOf, tasks>>

\* The promise of the call settles and the code after its await runs:
\* authService.logout and AuthProvider.logout, authService.login and
\* AuthProvider.login, AuthProvider.refreshUser, vaultService.reveal.
\* loggedOut (history): a logout has finished and no login has succeeded since.
Settle(call, outcome, retried, storage, location) ==
    LET fulfilled == outcome = "success" IN
    /\ client' = [client EXCEPT ![call] = "idle", !.location = location,
                                !.settled = [call |-> call, fulfilled |-> fulfilled,
                                             retried |-> retried, outcome |-> outcome],
                                !.loggedOut = IF call = "logout" THEN TRUE
                                              ELSE IF call = "login" /\ fulfilled THEN FALSE
                                              ELSE @]
    /\ CASE call = "logout" ->
              /\ localStorage' = afterLogoutCall(fulfilled, storage)
              /\ contextUser' = NoUser
         [] call = "login" ->
              IF fulfilled
              THEN /\ localStorage' = setTokens(generateAccessToken(ClientPayload, now),
                                                generateRefreshToken(ClientPayload, now))
                   /\ contextUser' = ClientUser
              ELSE /\ localStorage' = storage
                   /\ UNCHANGED contextUser
         [] call = "me" ->
              IF fulfilled
              THEN /\ localStorage' = storage
                   /\ contextUser' = ClientUser
              ELSE /\ localStorage' = clearTokens
                   /\ contextUser' = NoUser
         [] call = "reveal" ->
              /\ localStorage' = storage
              /\ UNCHANGED contextUser

\* api.post / api.get: the request interceptor, then the request is sent
ClientStart(call) ==
    /\ client[call] = "idle"
    /\ client' = [client EXCEPT ![call] = "posted", !.settled = NoCall]
    /\ UNCHANGED <<localStorage, contextUser>>
    /\ UNCHANGED vaultUi
    /\ ServerUnchanged

\* The response interceptor as it would be without the _retry flag
ClientResponseNoRetryFlag(call, outcome) ==
    /\ client[call] \in {"posted", "retried"}
    /\ IF outcome = "401" /\ localStorage.refresh_token # NoTok
       THEN /\ client' = [client EXCEPT ![call] = "refreshing", !.settled = NoCall]
            /\ UNCHANGED <<localStorage, contextUser>>
       ELSE Settle(call, outcome, client[call] = "retried",
                   localStorage, client.location)
    /\ UNCHANGED vaultUi
    /\ ServerUnchanged

\* The response interceptor on the answer to the request or to its retry: a
\* first 401 with a refresh token in localStorage posts /auth/refresh,
\* anything else settles the call.
ClientResponse(call, outcome) ==
    /\ client[call] \in {"posted", "retried"}
    /\ IF outcome = "401" /\ client[call] = "posted" /\ localStorage.refresh_token # NoTok
       THEN /\ client' = [client EXCEPT ![call] = "refreshing", !.settled = NoCall]
            /\ UNCHANGED <<localStorage, contextUser>>
       ELSE Settle(call, outcome, client[call] = "retried",
                   localStorage, client.location)
    /\ UNCHANGED vaultUi
    /\ ServerUnchanged

\* The response interceptor after its axios.post of /auth/refresh: the new
\* access token is stored and the request sent again, or the tokens are
\* cleared, the location set to /login and the call rejected.
ClientRefreshResponse(call, ok) ==
    /\ client[call] = "refreshing"
    /\ IF ok
       THEN /\ localStorage' = [localStorage EXCEPT
                                   !.access_token = generateAccessToken(ClientPayload, now)]
            /\ client' = [client EXCEPT ![call] = "retried", !.settled = NoCall]
            /\ UNCHANGED contextUser
       ELSE Settle(call, "401", FALSE, clearTokens, "/login")
    /\ UNCHANGED vaultUi
    /\ ServerUnchanged

ClientNext ==
    \/ Advance(CredInstants)
    \/ \E call \in Calls : ClientStart(call)
    \/ \E call \in Calls, outcome \in Outcomes : ClientResponse(call, outcome)
    \/ \E call \in Calls, ok \in BOOLEAN : ClientRefreshResponse(call, ok)

ClientSpec == Init /\ [][ClientNext]_vars

\* C20: in the state in which AuthProvider.logout has just finished, whether
\* its request or the retry of it was answered with success, 401 or 500 or
\* not at all, localStorage holds neither token and the user is null.
C20_LogoutClearsClient ==
    client.settled.call = "logout"
        => /\ localStorage.access_token = NoTok
           /\ localStorage.refresh_token = NoTok
           /\ contextUser = NoUser

\* A logout finished rejected: its request was answered 401, the refresh
\* token then in localStorage bought a new access token, and the retry
\* failed as well.
C20_Witness ==
    /\ client.settled.call = "logout"
    /\ ~client.settled.fulfilled /\ client.settled.retried
    /\ client.login = "posted"

\* What the caller of the AuthProvider function gets when the call has
\* settled: login and refreshUser catch the rejection of their call, logout
\* (try/finally in authService and in AuthProvider, no catch) passes it on.
Propagated(settled) == settled.call = "logout" /\ ~settled.fulfilled

\* C21: a logout whose server call failed (401, 500, no answer) still resolves
\* for its caller: no error is passed on by AuthProvider.logout.
C21_LogoutSwallowsFailure ==
    client.settled.call = "logout" => ~Propagated(client.settled)

\* Every request sent is answered or fails: the axios instance gives up
\* after its timeout of 10 s, the network ends the refresh call.
ClientFairSpec ==
    /\ ClientSpec
    /\ \A call \in Calls :
          /\ WF_vars(\E outcome \in Outcomes : ClientResponse(call, outcome))
          /\ WF_vars(\E ok \in BOOLEAN : ClientRefreshResponse(call, ok))

\* What is left of a call: the request, then the refresh, then the resent
\* request, then nothing.
CallRank(pc) ==
    CASE pc = "posted" -> 3 [] pc = "refreshing" -> 2 [] pc = "retried" -> 1 [] pc = "idle" -> 0

C25_NothingStoredAfterLogout ==
    (client.loggedOut /\ \A call \in Calls : client[call] = "idle")
        => localStorage = clearTokens

\* C26: the 401 that answers a login or a reveal with a wrong password is
\* passed to the caller at once: no /auth/refresh, no second request, and
\* localStorage as it was.
C26_CredentialFailureSurfaced ==
    [][\A call \in {"login", "reveal"} :
          (client[call] = "posted" /\ ClientResponse(call, "401"))
              => /\ client'[call] = "idle"
                 /\ client'.settled.call = call /\ ~client'.settled.retried
                 /\ UNCHANGED localStorage]_vars

-----------------------------------------------------------------------------
(* An account after its logout: its access token is sent to GET /auth/me     *)
(* before and after the logout, before and after its expiry, and before and  *)
(* after the account is soft-deleted.                                        *)

RevokeNext ==
    \/ Advance(MwInstants)
    \/ \E s \in Slots, in \in SessionSignups : SignupFind(s, in[1], in[2])
    \/ \E s \in Slots : SignupCreateUser(s, NoDst)
    \/ \E s \in Slots : SignupStoreToken(s)
    \/ \E s \in Slots, t \in accessOut, op \in {"me", "logout"} : Authenticate(s, Bearer(t), op)
    \/ \E s \in Slots : GetMe(s)
    \/ \E s \in Slots : Logout(s)
    \/ \E e \in Emails : SoftDeleteUser(e)

RevokeSpec == Init /\ [][RevokeNext]_vars

\* C27: an access token of a user who has logged out since and has no ledger
\* row left is accepted by authenticate, with the principal it names, as long
\* as it has not expired and the user row is not deleted.
C27_LogoutKeepsAccessTokens ==
    \A t \in accessOut :
        (/\ revoked[t.email] # {} /\ UserRows(t.userId) = {}
         /\ Seconds(now) < t.exp /\ LiveUser(t.userId) # {})
            => /\ authenticate(Bearer(t), now).ok
               /\ authenticate(Bearer(t), now).user = Payload(t)

\* GET /auth/me was answered 200 after the logout had emptied the ledger.
C27_Witness ==
    /\ lastResp.op = "me" /\ lastResp.status = 200
    /\ revoked["a@x.com"] # {} /\ UserRows(IdOf("a@x.com")) = {}

-----------------------------------------------------------------------------
(* Requests that fail validation: a signup with a weak password             *)
(* (signupValidator, validate, signup) and a vault request whose :id is no   *)
(* UUID (router.use(authenticate), then idParamValidator, validate, the      *)
(* handler).  The response records the tables read for the request.          *)

\* signupValidator on the password: the messages of the rules it breaks
signupValidator(password) ==
    (IF Len(password) = 0 THEN {"Password is required"} ELSE {})
    \cup (IF Len(password) < 8 THEN {"Password must be at least 8 characters"} ELSE {})
    \cup (IF \E i \in 1..Len(password) : password[i] \in 65..90 THEN {}
          ELSE {"Password must contain at least one uppercase letter"})
    \cup (IF \E i \in 1..Len(password) : password[i] \in 48..57 THEN {}
          ELSE {"Password must contain at least one number"})
    \cup (IF \E i \in 1..Len(password) :
                password[i] \in {33, 64, 35, 36, 37, 94, 38, 42, 40, 41, 44, 46, 63, 34, 58,
                                 123, 125, 124, 60, 62}
          THEN {} ELSE {"Password must contain at least one special character"})

\* validate: ApiError(400, the messages joined)
ValidationError(op, messages, tables) ==
    [errorHandler(op, ApiError(400, messages))
        EXCEPT !.data = [k |-> "invalid", tables |-> tables]]

\* POST /auth/signup with a body that signupValidator refuses
SignupInvalid(s, password) ==
    /\ CanStart(s)
    /\ signupValidator(password) # {}
    /\ Respond(s, ValidationError("signup", signupValidator(password), {}))
    /\ UNCHANGED vaultVars
    /\ VaultUnchanged

\* A vault route with an :id that idParamValidator refuses: authenticate has
\* run before (its findUnique on User), the handler never runs
VaultInvalidParams(s, id) ==
    /\ reqs[s].op \in VaultOps /\ reqs[s].pc = "handler"
    /\ Respond(s, ValidationError(reqs[s].op, {"id: Invalid ID format"}, {"user"}))
    /\ UNCHANGED vaultVars
    /\ VaultUnchanged

ValidationNext ==
    \/ \E s \in Slots, in \in SignupInputs : SignupFind(s, in[1], in[2])
    \/ \E s \in Slots : SignupCreateUser(s, NoDst)
    \/ \E s \in Slots : SignupStoreToken(s)
    \/ \E s \in Slots, password \in {<<>>, <<97, 98, 99>>, <<80, 97, 115, 115, 119, 48, 114, 100>>} :
           SignupInvalid(s, password)
    \/ \E s \in Slots, t \in accessOut : Authenticate(s, Bearer(t), "get")
    \/ \E s \in Slots, id \in {0, 1} : GetPassword(s, id)
    \/ \E s \in Slots, id \in {"not-a-uuid"} : VaultInvalidParams(s, id)

ValidationSpec == Init /\ [][ValidationNext]_vars

\* C23: a request answered 400 by validate had no table read for it.
C23_InvalidBeforeAnyStoreAccess ==
    (lastResp.status = 400 /\ lastResp.data.k = "invalid") => lastResp.data.tables = {}

-----------------------------------------------------------------------------
(* Browser, pages/VaultDashboard.tsx: one entry of the list, its eye button   *)
(* (togglePasswordVisibility) and the timers setTimeout has armed for it.    *)
(* maskedBy tells what the last step did to the entry (history).             *)

\* setTimeout(..., 10000)
AutoHideSeconds == 10

\* Instants at which the user acts
UiInstants == {0, 3 * TicksPerSec, 5 * TicksPerSec, 12 * TicksPerSec}

UiUnchanged ==
    /\ UNCHANGED <<localStorage, contextUser, client>>
    /\ UNCHANGED <<users, categories, ledger, nextRow, reqs, nreq, lastResp,
                   accessOut, refreshOut, superseded, revoked, vault, secretOf, tasks>>

\* Time passes, to an instant of the user's or to the deadline of a timer,
\* never beyond the deadline of a timer that has not run.
UiAdvance ==
    /\ \E t \in UiInstants \cup vaultUi.timers :
          /\ t > now
          /\ \A d \in vaultUi.timers : t <= d
          /\ now' = t
    /\ vaultUi' = [vaultUi EXCEPT !.maskedBy = "none"]
    /\ UiUnchanged

\* togglePasswordVisibility on an entry that is shown: it is removed from
\* visiblePasswords; no timer is cleared
ToggleHide ==
    /\ vaultUi.visible
    /\ vaultUi' = [vaultUi EXCEPT !.visible = FALSE, !.maskedBy = "user"]
    /\ UNCHANGED now
    /\ UiUnchanged

\* togglePasswordVisibility on an entry that is masked: prompt, then the
\* reveal call
ToggleReveal ==
    /\ ~vaultUi.visible /\ ~vaultUi.revealing
    /\ now \in UiInstants
    /\ vaultUi' = [vaultUi EXCEPT !.revealing = TRUE, !.maskedBy = "none"]
    /\ UNCHANGED now
    /\ UiUnchanged

\* The reveal call settles: the plaintext is put into visiblePasswords and a
\* timer armed, or a toast is shown
RevealSettles(ok) ==
    /\ vaultUi.revealing
    /\ vaultUi' = IF ok
                  THEN [vaultUi EXCEPT !.revealing = FALSE, !.visible = TRUE,
                                       !.revealedAt = now, !.maskedBy = "none",
                                       !.timers = @ \cup {now + AutoHideSeconds * TicksPerSec}]
                  ELSE [vaultUi EXCEPT !.revealing = FALSE, !.maskedBy = "none"]
    /\ UNCHANGED now
    /\ UiUnchanged

\* A timer runs at its deadline: the entry is removed from visiblePasswords
TimerRuns ==
    /\ \E d \in vaultUi.timers :
          /\ d <= now
          /\ vaultUi' = [vaultUi EXCEPT !.timers = @ \ {d}, !.visible = FALSE,
                                        !.maskedBy = IF vaultUi.visible THEN "timer" ELSE "none"]
    /\ UNCHANGED now
    /\ UiUnchanged

UiNext ==
    \/ UiAdvance
    \/ ToggleHide
    \/ ToggleReveal
    \/ \E ok \in BOOLEAN : RevealSettles(ok)
    \/ TimerRuns

UiSpec == Init /\ [][UiNext]_vars

\* C24: an entry that is shown is masked by a timer only when 10 seconds have
\* passed since its most recent reveal, and is never shown later than that.
C24_MaskedOnHideOrAfterTenSeconds ==
    /\ vaultUi.maskedBy = "timer" => now = vaultUi.revealedAt + AutoHideSeconds * TicksPerSec
    /\ vaultUi.visible => now <= vaultUi.revealedAt + AutoHideSeconds * TicksPerSec

-----------------------------------------------------------------------------
(* controllers/task.controller.ts behind routes/task.routes.ts. Of a task    *)
(* the title stands for its content (description and deadline are written    *)
(* by the same statements); status is a String column.                       *)

\* A field the body does not have
Undefined == "undefined"

\* String.prototype.toUpperCase on the status strings sent
toUpperCase(status) ==
    CASE status = "todo" -> "TODO"
      [] status = "ongoing" -> "ONGOING"
      [] status = "completed" -> "COMPLETED"
      [] status = "archived" -> "ARCHIVED"

TaskUnchanged ==
    /\ UNCHANGED vaultVars
    /\ UNCHANGED clientVars
    /\ UNCHANGED <<now, users, categories, ledger, nextRow, nreq,
                   accessOut, refreshOut, superseded, revoked>>

findTask(id, userId) == {t \in tasks : t.id = id /\ t.userId = userId /\ ~t.isDeleted}

\* createTask: create({data: {title, status: status.toUpperCase(), userId}})
CreateTask(s, title, status) ==
    /\ reqs[s].op = "createTask" /\ reqs[s].pc = "handler"
    /\ Cardinality(tasks) < MaxEntries
    /\ tasks' = tasks \cup
           {[id |-> Cardinality(tasks) + 1, userId |-> reqs[s].user.userId, title |-> title,
             status |-> toUpperCase(IF status = Undefined THEN "todo" ELSE status),
             isDeleted |-> FALSE]}
    /\ Respond(s, Resp("createTask", 201, "Task created successfully", NoData))
    /\ TaskUnchanged

\* updateTask and updateTaskStatus up to the tests that the task is the
\* caller's and is not completed
TaskFind(s, id, body) ==
    /\ reqs[s].op \in {"updateTask", "updateTaskStatus"} /\ reqs[s].pc = "handler"
    /\ LET existing == findTask(id, reqs[s].user.userId) IN
       IF existing = {}
       THEN Respond(s, errorHandler(reqs[s].op, ApiError(404, "Task not found")))
       ELSE IF \E t \in existing : t.status = "COMPLETED"
       THEN Respond(s, errorHandler(reqs[s].op,
                ApiError(400, IF reqs[s].op = "updateTask"
                              THEN "Completed tasks cannot be edited"
                              ELSE "Completed tasks cannot be modified")))
       ELSE Continue(s, [reqs[s] EXCEPT !.pc = "write"] @@ [id |-> id, body |-> body])
    /\ UNCHANGED tasks
    /\ TaskUnchanged

\* updateTask: update({where: {id}, data: updateData}) with the fields the
\* body has
UpdateTaskWrite(s) ==
    /\ reqs[s].op = "updateTask" /\ reqs[s].pc = "write"
    /\ LET b == reqs[s].body IN
       tasks' = {IF t.id = reqs[s].id
                 THEN [t EXCEPT !.title = IF b.title = Undefined THEN @ ELSE b.title,
                                !.status = IF b.status = Undefined THEN @
                                           ELSE toUpperCase(b.status)]
                 ELSE t : t \in tasks}
    /\ Respond(s, Resp("updateTask", 200, "Task updated successfully", NoData))
    /\ TaskUnchanged

\* updateTaskStatus: update({where: {id}, data: {status: status.toUpperCase()}});
\* a body without status throws
UpdateTaskStatusWrite(s) ==
    /\ reqs[s].op = "updateTaskStatus" /\ reqs[s].pc = "write"
    /\ LET b == reqs[s].body IN
       IF b.status = Undefined
       THEN /\ Respond(s, errorHandler("updateTaskStatus",
                                       Thrown("Cannot read properties of undefined")))
            /\ UNCHANGED tasks
       ELSE /\ tasks' = {IF t.id = reqs[s].id
                         THEN [t EXCEPT !.status = toUpperCase(b.status)]
                         ELSE t : t \in tasks}
            /\ Respond(s, Resp("updateTaskStatus", 200, "Task marked", NoData))
    /\ TaskUnchanged

\* Bodies that pass createTaskValidator / updateTaskValidator: status, when
\* present, is one of 'todo', 'ongoing', 'completed'
ValidStatuses == {"todo", "ongoing", "completed"}

TaskNext ==
    \/ \E s \in Slots, in \in SessionSignups : SignupFind(s, in[1], in[2])
    \/ \E s \in Slots : SignupCreateUser(s, NoDst)
    \/ \E s \in Slots : SignupStoreToken(s)
    \/ \E s \in Slots, t \in accessOut, op \in {"createTask", "updateTask", "updateTaskStatus"} :
           Authenticate(s, Bearer(t), op)
    \/ \E s \in Slots, status \in ValidStatuses \cup {Undefined} : CreateTask(s, "t1", status)
    \/ \E s \in Slots, id \in 1..MaxEntries :
          \/ /\ reqs[s].op = "updateTask"
             /\ \E title \in {"t2", Undefined}, status \in ValidStatuses \cup {Undefined} :
                   TaskFind(s, id, [title |-> title, status |-> status])
          \/ /\ reqs[s].op = "updateTaskStatus"
             /\ \E status \in ValidStatuses \cup {"archived", Undefined} :
                   TaskFind(s, id, [title |-> Undefined, status |-> status])
    \/ \E s \in Slots : UpdateTaskWrite(s)
    \/ \E s \in Slots : UpdateTaskStatusWrite(s)

TaskSpec == Init /\ [][TaskNext]_vars

\* C28: the status of every stored task is TODO, ONGOING or COMPLETED.
C28_StatusIsOneOfThree ==
    \A t \in tasks : t.status \in {"TODO", "ONGOING", "COMPLETED"}

\* C29: no step changes the title or the status of a task whose status is
\* COMPLETED.
C29_CompletedIsAbsorbing ==
    [][\A t \in tasks : t.status = "COMPLETED"
          => \E u \in tasks' : u.id = t.id /\ u.title = t.title /\ u.status = t.status]_vars

-----------------------------------------------------------------------------
(* Vault entries and the categories they reference                          *)
(* createPassword and updatePassword against deleteCategory                 *)

\* updatePassword with a body of categoryId alone, up to the check that the
\* entry exists and is the caller's
UpdatePasswordFind(s, id, categoryId) ==
    /\ reqs[s].op = "update" /\ reqs[s].pc = "handler"
    /\ IF findEntry(id, reqs[s].user.userId) = {}
       THEN Respond(s, VaultError(reqs[s], id, <<>>, {"vault"},
                                  ApiError(404, "Password entry not found")))
       ELSE Continue(s, [reqs[s] EXCEPT !.pc = "category"]
                         @@ [id |-> id, categoryId |-> categoryId])
    /\ UNCHANGED vaultVars
    /\ VaultUnchanged

\* updatePassword: the check that the new category is the caller's
UpdatePasswordCategory(s) ==
    /\ reqs[s].op = "update" /\ reqs[s].pc = "category"
    /\ IF findCategory(reqs[s].categoryId, reqs[s].user.userId) = {}
       THEN Respond(s, VaultError(reqs[s], reqs[s].id, <<>>, {"vault", "category"},
                                  ApiError(400, "Invalid category")))
       ELSE Continue(s, [reqs[s] EXCEPT !.pc = "connect"])
    /\ UNCHANGED vaultVars
    /\ VaultUnchanged

\* updatePassword: update({where: {id}, data: {category: {connect: {id}}}})
UpdatePasswordConnect(s) ==
    /\ reqs[s].op = "update" /\ reqs[s].pc = "connect"
    /\ LET r == reqs[s]
           updated(p) == [p EXCEPT !.categoryId = r.categoryId]
       IN /\ vault' = {IF p.id = r.id THEN updated(p) ELSE p : p \in vault}
          /\ Respond(s, Resp("update", 200, "Password updated successfully",
                 VaultData(r, r.id, <<>>, {"vault", "category"},
                           {maskedEntry(updated(p)) : p \in {q \in vault : q.id = r.id}})))
    /\ UNCHANGED secretOf
    /\ VaultUnchanged

\* The password categories of the account: a default one and one of its own
OwnCategoryIds == {<<IdOf(in[1]), "password", n>> : in \in SessionSignups, n \in CategoryNames}

ReferenceNext ==
    \/ \E s \in Slots, in \in SessionSignups : SignupFind(s, in[1], in[2])
    \/ \E s \in Slots : SignupCreateUser(s, NoDst)
    \/ \E s \in Slots : SignupStoreToken(s)
    \/ \E s \in Slots, t \in accessOut,
          op \in {"createCategory", "deleteCategory", "create", "update"} :
           Authenticate(s, Bearer(t), op)
    \/ \E s \in Slots, n \in CategoryNames : CreateCategoryFind(s, n, "password")
    \/ \E s \in Slots : CreateCategoryWrite(s)
    \/ \E s \in Slots, id \in OwnCategoryIds : DeleteCategoryFind(s, "passwords", id)
    \/ \E s \in Slots : DeleteCategoryCount(s)
    \/ \E s \in Slots : DeleteCategoryWrite(s)
    \/ \E s \in Slots, id \in OwnCategoryIds : CreateCheck(s, id, SecretAscii)
    \/ \E s \in Slots : CreateWrite(s)
    \/ \E s \in Slots, id \in EntryIds, c \in OwnCategoryIds : UpdatePasswordFind(s, id, c)
    \/ \E s \in Slots : UpdatePasswordCategory(s)
    \/ \E s \in Slots : UpdatePasswordConnect(s)

ReferenceSpec == Init /\ [][ReferenceNext]_vars

\* C30: every vault entry that is not deleted references a password category
\* of the same user that is not deleted, and no default category is deleted.
C30_EntryReferencesLiveCategory ==
    /\ \A p \in vault :
          ~p.isDeleted => \E c \in categories : /\ CatId(c) = p.categoryId
                                                /\ c.type = "password"
                                                /\ c.userId = p.userId
                                                /\ ~c.isDeleted
    /\ \A c \in categories : c.isDefault => ~c.isDeleted

====
